---- MODULE Spec2Model ----
(***************************************************************************)
(* A model of jex: the wrapper around the native jq engine (src/src/jq.rs) *)
(* and the interactive loop (src/src/main.rs, fn run).                     *)
(*                                                                         *)
(* Three specifications share this module:                                 *)
(*   SpecJQ     the JQ / JQResults wrapper driving native jq states        *)
(*   SpecQuery  run_jq_query deriving value sets from a parent value set   *)
(*   SpecApp    the event loop of run                                      *)
(***************************************************************************)
EXTENDS Integers, Sequences, FiniteSets, TLC

VARIABLES
    \* ---- jq.rs: JQ, JQResults and the native states behind them
    native,     \* id -> the native jq_state the pointer JQ.ptr names
    jq,         \* id -> the JQ wrapper owning native state id
    res,        \* id -> the JQResults borrowing JQ id, and what it has yielded
    proc,       \* "running" | "panicked" (unwinding) | "aborted"
    \* ---- jq.rs: run_jq_query
    sets,       \* the value sets: sets[1] the parent's, the others derived
    origin,     \* origin[i]: the parent and the query sets[i] was derived with
    snap,       \* snap[i]: sets[i] as it was when it was created
    qproc,      \* "running" | "panicked"
    qret,       \* what the last run_jq_query call did
    \* ---- main.rs: run
    app,        \* the App: forest, pane indices, focus, search_re, show_tree, flash
    term_size,  \* terminal.get_frame().size()
    run,        \* "start" | "raw" | "init" (start-up) | "loop" |
                \* "Ok" | "Err" (run returned) | "panic"
    events,     \* the number of events the loop has read
    term        \* the terminal's modes, the panic hook and the guard _defer

jqVars == <<native, jq, res, proc>>
queryVars == <<sets, origin, snap, qproc, qret>>
appVars == <<app, term_size, run, events, term>>
vars == <<jqVars, queryVars, appVars>>

\* What the JQ wrapper's operations leave alone, and what run_jq_query does.
notJQ == <<queryVars, appVars>>
notQuery == <<jqVars, appVars>>
notApp == <<jqVars, queryVars>>

----------------------------------------------------------------------------
(* Bounds of the model. *)

\* Native states jq_init hands out in one run.
MaxJQ == 2

JQIds == 1..MaxJQ

----------------------------------------------------------------------------
(* serde_json::Value, the generic JSON value. *)

VNull == [t |-> "Null"]
VBool(b) == [t |-> "Bool", b |-> b]
VNum(n) == [t |-> "Number", n |-> n]
VStr(s) == [t |-> "String", s |-> s]
VArr(a) == [t |-> "Array", a |-> a]
\* o: a function from the object's keys to their values (a map: no key order).
VObj(o) == [t |-> "Object", o |-> o]

\* The values the model feeds the engine. Between them they hold every
\* variant, at the top and nested, an empty collection, and an object whose
\* keys are not written in sorted order.
JsonValues ==
    { VNull,
      VArr(<<VBool(FALSE), VArr(<<>>)>>),
      VObj([b |-> VStr("a"), a |-> VObj([b |-> VNum(1), a |-> VBool(TRUE)])]) }

\* The order jq keeps object keys in (sorted).
KeyOrder == <<"a", "b">>

SortedKeys(S) == SelectSeq(KeyOrder, LAMBDA k : k \in S)

----------------------------------------------------------------------------
(* jv: the native value behind a JV handle, tagged with its jv_kind. *)

JvInvalid == [kind |-> "Invalid", msg |-> ""]
JvInvalidWithMsg(m) == [kind |-> "Invalid", msg |-> m]
JvNull == [kind |-> "Null"]
JvFalse == [kind |-> "False"]
JvTrue == [kind |-> "True"]
JvNumber(n) == [kind |-> "Number", num |-> n]
JvString(s) == [kind |-> "String", str |-> s]
JvArray(items) == [kind |-> "Array", items |-> items]
\* fields: a sequence of [key, value] in sorted key order.
JvObject(fields) == [kind |-> "Object", fields |-> fields]

\* JV::get_kind
GetKind(j) == j.kind

\* JV::from_serde (src/jv.rs); total.
RECURSIVE FromSerde(_)
FromSerde(v) ==
    CASE v.t = "Null" -> JvNull
      [] v.t = "Bool" -> IF v.b THEN JvTrue ELSE JvFalse
      [] v.t = "Number" -> JvNumber(v.n)
      [] v.t = "String" -> JvString(v.s)
      [] v.t = "Array" ->
            JvArray([i \in 1..Len(v.a) |-> FromSerde(v.a[i])])
      [] v.t = "Object" ->
            LET ks == SortedKeys(DOMAIN v.o)
            IN  JvObject([i \in 1..Len(ks) |->
                            [key |-> ks[i], value |-> FromSerde(v.o[ks[i]])]])

\* JV::to_serde on a valid native value.
RECURSIVE ToSerdeValid(_)
ToSerdeValid(j) ==
    CASE j.kind = "Null" -> VNull
      [] j.kind = "False" -> VBool(FALSE)
      [] j.kind = "True" -> VBool(TRUE)
      [] j.kind = "Number" -> VNum(j.num)
      [] j.kind = "String" -> VStr(j.str)
      [] j.kind = "Array" ->
            VArr([i \in 1..Len(j.items) |-> ToSerdeValid(j.items[i])])
      [] j.kind = "Object" ->
            VObj([k \in {j.fields[i].key : i \in 1..Len(j.fields)} |->
                    LET i == CHOOSE i \in 1..Len(j.fields) : j.fields[i].key = k
                    IN  ToSerdeValid(j.fields[i].value)])

\* JV::to_serde (src/jv.rs): fails on a payload that is no JSON value.
ToSerde(j) ==
    IF j.kind = "Invalid" THEN [ok |-> FALSE]
    ELSE [ok |-> TRUE, v |-> ToSerdeValid(j)]

----------------------------------------------------------------------------
(* Program texts, as the bytes of the &str handed to JQ::compile. *)

ProgIdentity == <<46>>                          \* .
ProgEach == <<46, 91, 93>>                      \* .[]
ProgEmpty == <<101, 109, 112, 116, 121>>        \* empty
ProgBadSyntax == <<46, 46, 46>>                 \* ...
ProgWithNul == <<46, 0, 46>>                    \* . NUL .

ValidPrograms == {ProgIdentity, ProgEach, ProgEmpty}
ProgramTexts == ValidPrograms \cup {ProgBadSyntax, ProgWithNul}

\* CString::new: an error when the text holds a NUL byte, else the bytes
\* with the terminating NUL.
CStringNew(s) ==
    IF \E i \in 1..Len(s) : s[i] = 0
    THEN [ok |-> FALSE]
    ELSE [ok |-> TRUE, bytes |-> Append(s, 0)]

\* What a C function reads of a char*: the bytes before the first NUL.
RECURSIVE CStr(_)
CStr(bytes) ==
    IF bytes = <<>> \/ Head(bytes) = 0 THEN <<>>
    ELSE <<Head(bytes)>> \o CStr(Tail(bytes))

----------------------------------------------------------------------------
(* libjq, as jq.rs drives it through jq_sys. *)

\* The results of a program on an input, in the order jq_next returns them,
\* closed by the invalid value that ends the run: without a message at the
\* end of the results, with one when the program raised an error.
JqEval(prog, input) ==
    CASE prog = ProgIdentity -> <<input, JvInvalid>>
      [] prog = ProgEmpty -> <<JvInvalid>>
      [] prog = ProgEach ->
            CASE input.kind = "Array" -> input.items \o <<JvInvalid>>
              [] input.kind = "Object" ->
                    [i \in 1..Len(input.fields) |-> input.fields[i].value]
                        \o <<JvInvalid>>
              [] OTHER -> <<JvInvalidWithMsg("Cannot iterate")>>
      [] OTHER -> <<JvInvalidWithMsg("not compiled")>>

\* A slot no jq_state has been allocated in yet.
NativeNone ==
    [state |-> "none", prog |-> <<>>, pending |-> <<>>, log |-> <<>>,
     inits |-> 0, teardowns |-> 0, misuse |-> FALSE]

\* jq_init: a new jq_state.
JqInit(n) == [n EXCEPT !.state = "init", !.inits = @ + 1]

\* jq_compile(ptr, cstr): > 0 when the text compiles.
JqCompile(n, cstr) ==
    IF n.state = "freed" THEN [ok |-> 0, n |-> [n EXCEPT !.misuse = TRUE]]
    ELSE IF CStr(cstr) \in ValidPrograms
    THEN [ok |-> 1, n |-> [n EXCEPT !.state = "compiled", !.prog = CStr(cstr)]]
    ELSE [ok |-> 0, n |-> n]

\* jq_start(ptr, input, 0): resets the state and takes the input over.
JqStart(n, input) ==
    IF n.state = "freed" THEN [n EXCEPT !.misuse = TRUE]
    ELSE [n EXCEPT !.pending = JqEval(n.prog, input), !.log = <<>>]

\* jq_next(ptr): the next result; log keeps what a run has returned, up to
\* the invalid value that closes it. Once the closing invalid value has been
\* returned the run is over and the protocol defines no further call: libjq
\* answers with another invalid value (a halted state) or stops the process
\* on its assertion that a frame is left to resume.
JqNext(n) ==
    IF n.state = "freed"
    THEN {[n |-> [n EXCEPT !.misuse = TRUE], raw |-> JvInvalid, crash |-> FALSE]}
    ELSE IF n.pending # <<>>
    THEN {[n |-> [n EXCEPT !.pending = Tail(n.pending),
                           !.log = Append(n.log, Head(n.pending))],
           raw |-> Head(n.pending), crash |-> FALSE]}
    ELSE {[n |-> n, raw |-> JvInvalid, crash |-> FALSE],
          [n |-> n, raw |-> JvInvalid, crash |-> TRUE]}

\* jq_teardown(&ptr)
JqTeardown(n) ==
    [n EXCEPT !.state = "freed", !.teardowns = @ + 1, !.pending = <<>>,
              !.log = <<>>, !.misuse = @ \/ n.state = "freed"]

----------------------------------------------------------------------------
(* jq.rs: JQ and JQResults. *)

\* A Drop that leaves the native state alone.
JQDropLeaks(n) == n

\* impl Drop for JQ
JQDrop(n) == JqTeardown(n)

\* JQ::new: the slot of the state jq_init returns.
JQNew == CHOOSE id \in JQIds :
            /\ native[id].state = "none"
            /\ \A other \in JQIds : native[other].state = "none" => id <= other

\* A native value (jv) as its owners see it: the JV wrappers that hold it,
\* whether the engine holds it, and how often a wrapper has released it.
\* Fresh: a value jq_next has just returned, or one just built, that no
\* wrapper holds yet.
Fresh == [wrappers |-> 0, engine |-> 0, frees |-> 0]

\* JV { ptr }: one more wrapper over the value.
JVOf(h) == [h EXCEPT !.wrappers = @ + 1]

\* impl Drop for JV (src/jv.rs): the wrapper releases its value.
JVDrop(h) == [h EXCEPT !.wrappers = @ - 1, !.frees = @ + 1]

\* An unwrap that releases the value as a drop of the wrapper does.
UnwrapAndDrop(h) == [h EXCEPT !.wrappers = @ - 1, !.frees = @ + 1]

\* JV::unwrap_without_drop (src/jv.rs): the wrapper gives its value up
\* without releasing it.
UnwrapWithoutDrop(h) == [h EXCEPT !.wrappers = @ - 1]

\* An iterator that keeps no borrow of the JQ.
NeverBorrowed(id) == TRUE

\* JQ::execute takes &mut self and the iterator it returns keeps that borrow
\* ('_): execute and drop need the JQ unborrowed.
Unborrowed(id) == res[id].live = 0

\* A next() that takes a null result for the end of the results.
JQResultsNextNullEnds(raw) ==
    IF GetKind(raw) \in {"Invalid", "Null"} THEN [some |-> FALSE]
    ELSE [some |-> TRUE, v |-> raw]

\* A next() that never looks at the kind of the result.
JQResultsNextYieldsAll(raw) == [some |-> TRUE, v |-> raw]

\* JQResults::next on what jq_next returned.
JQResultsNext(raw) ==
    IF GetKind(raw) = "Invalid" THEN [some |-> FALSE]
    ELSE [some |-> TRUE, v |-> raw]

\* yielded: the values of the Some(_) returned up to the first None; ended:
\* a None was returned; after: next() was called again after it, and late:
\* the values it then yielded. last: how the JQ's latest result sequence
\* went out of scope.
\* in_handle: the native value of the input execute was given; out_handles:
\* the native values jq_next has returned to this sequence (as a set: values
\* in the same condition are alike).
NoResults == [live |-> 0, yielded |-> <<>>, ended |-> FALSE, late |-> <<>>,
              after |-> FALSE, input |-> VNull, last |-> "none",
              in_handle |-> Fresh, out_handles |-> {}]

\* A JQ that does not exist yet. text and result: the text compile was given
\* and what it returned ("Some", "None", or "panic" when it did not return).
NoJQ == [life |-> "unborn", text |-> <<>>, result |-> "none"]

InitJQVars ==
    /\ native = [id \in JQIds |-> NativeNone]
    /\ jq = [id \in JQIds |-> NoJQ]
    /\ res = [id \in JQIds |-> NoResults]
    /\ proc = "running"

\* JQ::compile(s)
Compile(s) ==
    /\ proc = "running"
    /\ \E id \in JQIds : native[id].state = "none"
    /\ LET id == JQNew
           prog == JqInit(native[id])
           cstr == CStringNew(s)
       IN  IF ~cstr.ok
           THEN \* expect() panics; prog is dropped as the panic unwinds
                /\ native' = [native EXCEPT ![id] = JQDrop(prog)]
                /\ jq' = [jq EXCEPT ![id] =
                            [life |-> "dropped", text |-> s, result |-> "panic"]]
                /\ proc' = "panicked"
           ELSE LET c == JqCompile(prog, cstr.bytes)
                IN  IF c.ok > 0
                    THEN /\ native' = [native EXCEPT ![id] = c.n]
                         /\ jq' = [jq EXCEPT ![id] =
                                    [life |-> "owned", text |-> s, result |-> "Some"]]
                         /\ proc' = proc
                    ELSE \* None is returned and prog goes out of scope
                         /\ native' = [native EXCEPT ![id] = JQDrop(c.n)]
                         /\ jq' = [jq EXCEPT ![id] =
                                    [life |-> "dropped", text |-> s, result |-> "None"]]
                         /\ proc' = proc
    /\ UNCHANGED <<res, notJQ>>

\* jq.execute(JV::from_serde(v))
Execute(id, v) ==
    /\ proc = "running"
    /\ jq[id].life = "owned"
    /\ Unborrowed(id)
    /\ native' = [native EXCEPT ![id] = JqStart(@, FromSerde(v))]
    /\ res' = [res EXCEPT ![id] =
                [NoResults EXCEPT
                    !.live = res[id].live + 1,
                    !.input = v,
                    \* jq_start takes over what unwrap_without_drop gave up
                    !.in_handle = [UnwrapWithoutDrop(JVOf(Fresh))
                                      EXCEPT !.engine = @ + 1]]]
    /\ UNCHANGED <<jq, proc, notJQ>>

\* A next() that starts the execution over once the results are exhausted.
NextRestarts(id) ==
    /\ proc = "running"
    /\ res[id].live > 0
    /\ \E o \in JqNext(IF res[id].ended
                       THEN JqStart(native[id], FromSerde(res[id].input))
                       ELSE native[id]) :
          IF o.crash
          THEN /\ proc' = "aborted"
               /\ UNCHANGED <<native, res>>
          ELSE LET r == JQResultsNext(o.raw)
                   \* res = JV { ptr: raw_res }: moved out in Some(res),
                   \* dropped at the end of next() when None is returned
                   h == IF r.some THEN JVOf(Fresh) ELSE JVDrop(JVOf(Fresh))
               IN  /\ native' = [native EXCEPT ![id] = o.n]
                   /\ res' = [res EXCEPT ![id] =
                        LET p == [@ EXCEPT !.out_handles = @ \cup {h}]
                        IN  IF p.ended
                            THEN [p EXCEPT !.after = TRUE,
                                           !.late = IF r.some THEN Append(@, r.v)
                                                    ELSE @]
                            ELSE IF ~r.some THEN [p EXCEPT !.ended = TRUE]
                            ELSE [p EXCEPT !.yielded = Append(@, r.v)]]
                   /\ proc' = proc
    /\ UNCHANGED <<jq, notJQ>>

\* next() on the iterator execute returned
Next(id) ==
    /\ proc = "running"
    /\ res[id].live > 0
    /\ \E o \in JqNext(native[id]) :
          IF o.crash
          THEN /\ proc' = "aborted"
               /\ UNCHANGED <<native, res>>
          ELSE LET r == JQResultsNext(o.raw)
                   \* res = JV { ptr: raw_res }: moved out in Some(res),
                   \* dropped at the end of next() when None is returned
                   h == IF r.some THEN JVOf(Fresh) ELSE JVDrop(JVOf(Fresh))
               IN  /\ native' = [native EXCEPT ![id] = o.n]
                   /\ res' = [res EXCEPT ![id] =
                        LET p == [@ EXCEPT !.out_handles = @ \cup {h}]
                        IN  IF p.ended
                            THEN [p EXCEPT !.after = TRUE,
                                           !.late = IF r.some THEN Append(@, r.v)
                                                    ELSE @]
                            ELSE IF ~r.some THEN [p EXCEPT !.ended = TRUE]
                            ELSE [p EXCEPT !.yielded = Append(@, r.v)]]
                   /\ proc' = proc
    /\ UNCHANGED <<jq, notJQ>>

\* The iterator goes out of scope, exhausted or not.
DropResults(id) ==
    /\ proc \in {"running", "panicked"}
    /\ res[id].live > 0
    /\ res' = [res EXCEPT ![id] =
                [NoResults EXCEPT !.live = res[id].live - 1,
                                  !.last = IF res[id].ended THEN "exhausted"
                                           ELSE "abandoned"]]
    /\ UNCHANGED <<native, jq, proc, notJQ>>

\* The JQ goes out of scope.
DropJQ(id) ==
    /\ proc \in {"running", "panicked"}
    /\ jq[id].life = "owned"
    /\ Unborrowed(id)
    /\ native' = [native EXCEPT ![id] = JQDrop(@)]
    /\ jq' = [jq EXCEPT ![id].life = "dropped"]
    /\ UNCHANGED <<res, proc, notJQ>>

----------------------------------------------------------------------------
(* JSON text, as a sequence of lexical tokens. *)

Tok(t) == [tok |-> t]
TokNum(n) == [tok |-> "num", n |-> n]
TokStr(x) == [tok |-> "str", s |-> x]

\* xs[1] \o sep \o xs[2] \o ... \o xs[n]
RECURSIVE Join(_, _)
Join(xs, sep) ==
    IF xs = <<>> THEN <<>>
    ELSE IF Len(xs) = 1 THEN xs[1]
    ELSE xs[1] \o sep \o Join(Tail(xs), sep)

\* xs[1] \o xs[2] \o ... \o xs[n]
Concat(xs) == Join(xs, <<>>)

\* serde_json's Value::to_string: compact, the keys in the map's order.
RECURSIVE SerdeToString(_)
SerdeToString(v) ==
    CASE v.t = "Null" -> <<Tok("null")>>
      [] v.t = "Bool" -> <<Tok(IF v.b THEN "true" ELSE "false")>>
      [] v.t = "Number" -> <<TokNum(v.n)>>
      [] v.t = "String" -> <<TokStr(v.s)>>
      [] v.t = "Array" ->
            <<Tok("[")>>
            \o Join([i \in 1..Len(v.a) |-> SerdeToString(v.a[i])], <<Tok(",")>>)
            \o <<Tok("]")>>
      [] v.t = "Object" ->
            LET ks == SortedKeys(DOMAIN v.o)
            IN  <<Tok("{")>>
                \o Join([i \in 1..Len(ks) |->
                            <<TokStr(ks[i]), Tok(":")>> \o SerdeToString(v.o[ks[i]])],
                        <<Tok(",")>>)
                \o <<Tok("}")>>

\* jv_dump_string: the text of a native value.
RECURSIVE JvDump(_)
JvDump(j) ==
    CASE j.kind = "Null" -> <<Tok("null")>>
      [] j.kind = "False" -> <<Tok("false")>>
      [] j.kind = "True" -> <<Tok("true")>>
      [] j.kind = "Number" -> <<TokNum(j.num)>>
      [] j.kind = "String" -> <<TokStr(j.str)>>
      [] j.kind = "Array" ->
            <<Tok("[")>>
            \o Join([i \in 1..Len(j.items) |-> JvDump(j.items[i])], <<Tok(",")>>)
            \o <<Tok("]")>>
      [] j.kind = "Object" ->
            <<Tok("{")>>
            \o Join([i \in 1..Len(j.fields) |->
                        <<TokStr(j.fields[i].key), Tok(":")>>
                            \o JvDump(j.fields[i].value)],
                    <<Tok(",")>>)
            \o <<Tok("}")>>
      [] OTHER -> <<Tok("<invalid>")>>

ParseError == [ok |-> FALSE]

\* A JSON parser over the tokens: [ok, v, rest], v the value read and rest
\* the tokens after it.
RECURSIVE ParseValue(_), ParseElements(_, _), ParseMembers(_, _)
ParseValue(toks) ==
    IF toks = <<>> THEN ParseError
    ELSE LET h == Head(toks)
             rest == Tail(toks)
         IN  CASE h.tok = "null" -> [ok |-> TRUE, v |-> VNull, rest |-> rest]
               [] h.tok = "true" -> [ok |-> TRUE, v |-> VBool(TRUE), rest |-> rest]
               [] h.tok = "false" -> [ok |-> TRUE, v |-> VBool(FALSE), rest |-> rest]
               [] h.tok = "num" -> [ok |-> TRUE, v |-> VNum(h.n), rest |-> rest]
               [] h.tok = "str" -> [ok |-> TRUE, v |-> VStr(h.s), rest |-> rest]
               [] h.tok = "[" ->
                    IF rest # <<>> /\ Head(rest).tok = "]"
                    THEN [ok |-> TRUE, v |-> VArr(<<>>), rest |-> Tail(rest)]
                    ELSE ParseElements(rest, <<>>)
               [] h.tok = "{" ->
                    IF rest # <<>> /\ Head(rest).tok = "}"
                    THEN [ok |-> TRUE, v |-> VObj(<<>>), rest |-> Tail(rest)]
                    ELSE ParseMembers(rest, <<>>)
               [] OTHER -> ParseError

\* value ("," value)* "]", after the elements in acc
ParseElements(toks, acc) ==
    LET e == ParseValue(toks)
    IN  IF ~e.ok \/ e.rest = <<>> THEN ParseError
        ELSE CASE Head(e.rest).tok = "]" ->
                    [ok |-> TRUE, v |-> VArr(Append(acc, e.v)), rest |-> Tail(e.rest)]
               [] Head(e.rest).tok = "," ->
                    ParseElements(Tail(e.rest), Append(acc, e.v))
               [] OTHER -> ParseError

\* string ":" value ("," string ":" value)* "}", after the members in acc
ParseMembers(toks, acc) ==
    IF Len(toks) < 2 \/ toks[1].tok # "str" \/ toks[2].tok # ":" THEN ParseError
    ELSE LET e == ParseValue(Tail(Tail(toks)))
         IN  IF ~e.ok \/ e.rest = <<>> THEN ParseError
             ELSE LET members == (toks[1].s :> e.v) @@ acc
                  IN  CASE Head(e.rest).tok = "}" ->
                             [ok |-> TRUE, v |-> VObj(members), rest |-> Tail(e.rest)]
                        [] Head(e.rest).tok = "," ->
                             ParseMembers(Tail(e.rest), members)
                        [] OTHER -> ParseError

\* The tokens after leading whitespace.
RECURSIVE SkipWhitespace(_)
SkipWhitespace(toks) ==
    IF toks # <<>> /\ Head(toks).tok = "nl" THEN SkipWhitespace(Tail(toks))
    ELSE toks

\* Deserializer::from_str(j).into_iter::<Value>(), collected: the values of
\* a stream of whitespace-separated JSON texts, or the first error.
RECURSIVE StreamValues(_, _)
StreamValues(toks, acc) ==
    LET t == SkipWhitespace(toks)
    IN  IF t = <<>> THEN [ok |-> TRUE, values |-> acc]
        ELSE LET e == ParseValue(t)
             IN  IF ~e.ok THEN [ok |-> FALSE]
                 ELSE StreamValues(e.rest, Append(acc, e.v))

\* jq_rs::JqProgram::run(&str): parses the input text, runs the program and
\* returns its results as text, one per line; an error when the input does
\* not parse or the program raises one.
JqProgramRun(prog, text) ==
    LET e == ParseValue(text)
    IN  IF ~e.ok \/ e.rest # <<>> THEN [ok |-> FALSE, msg |-> "parse error"]
        ELSE LET outs == JqEval(prog, FromSerde(e.v))
                 last == outs[Len(outs)]
             IN  IF last.msg # "" THEN [ok |-> FALSE, msg |-> last.msg]
                 ELSE [ok |-> TRUE,
                       out |-> Concat([i \in 1..(Len(outs) - 1) |->
                                          JvDump(outs[i]) \o <<Tok("nl")>>])]

----------------------------------------------------------------------------
(* jq.rs: run_jq_query. *)

\* Value sets one run derives.
MaxSets == 4

\* The parent value sets a run starts from.
ParentSets ==
    { <<VArr(<<VNum(1), VArr(<<VNull>>)>>)>>,
      <<VArr(<<VStr("a"), VBool(FALSE)>>),
        VObj([b |-> VBool(TRUE), a |-> VObj([b |-> VStr("a")])])>>,
      <<VArr(<<>>), VNum(1)>>,
      <<VArr(<<VNum(1), VNum(2)>>), VArr(<<>>), VArr(<<VArr(<<>>)>>)>> }

\* A run_jq_query that collects the results of the last input first.
RunJqQueryLastFirst(content, prog) ==
    LET runs == [i \in 1..Len(content) |->
                    JqProgramRun(prog, SerdeToString(content[i]))]
    IN  IF \E i \in 1..Len(runs) : ~runs[i].ok
        THEN [panic |-> TRUE, msg |-> "jq execution error"]
        ELSE LET right_strings == [i \in 1..Len(runs) |-> runs[i].out]
                 parsed == [i \in 1..Len(runs) |-> StreamValues(right_strings[i], <<>>)]
             IN  IF \E i \in 1..Len(parsed) : ~parsed[i].ok
                 THEN [panic |-> TRUE, msg |-> "json decoding error"]
                 ELSE [panic |-> FALSE,
                       values |-> Concat([i \in 1..Len(parsed) |->
                                            parsed[Len(parsed) + 1 - i].values])]

\* run_jq_query(content, prog): the values, or the panic of an expect().
RunJqQuery(content, prog) ==
    LET runs == [i \in 1..Len(content) |->
                    JqProgramRun(prog, SerdeToString(content[i]))]
    IN  IF \E i \in 1..Len(runs) : ~runs[i].ok
        THEN [panic |-> TRUE, msg |-> "jq execution error"]
        ELSE LET right_strings == [i \in 1..Len(runs) |-> runs[i].out]
                 parsed == [i \in 1..Len(runs) |-> StreamValues(right_strings[i], <<>>)]
             IN  IF \E i \in 1..Len(parsed) : ~parsed[i].ok
                 THEN [panic |-> TRUE, msg |-> "json decoding error"]
                 ELSE [panic |-> FALSE,
                       values |-> Concat([i \in 1..Len(parsed) |-> parsed[i].values])]

\* A query that writes its results over the content it was given.
DerivedInPlace(all, p, values) == Append([all EXCEPT ![p] = values], values)

\* content is borrowed immutably and the result is a new Vec: the value
\* sets after the caller has kept the result of a query on all[p].
Derived(all, p, values) == Append(all, values)

InitQueryVars ==
    /\ sets \in {<<c>> : c \in ParentSets}
    /\ origin = <<[parent |-> 0, query |-> <<>>]>>
    /\ snap = sets
    /\ qproc = "running"
    /\ qret = [op |-> "none"]

\* A frame is derived from value set p with the compiled program prog.
Derive(p, prog) ==
    /\ qproc = "running"
    /\ Len(sets) < MaxSets
    /\ p \in 1..Len(sets)
    /\ LET r == RunJqQuery(sets[p], prog)
       IN  IF r.panic
           THEN /\ qproc' = "panicked"
                /\ qret' = [op |-> "derive", parent |-> p, query |-> prog,
                            result |-> "panic", msg |-> r.msg]
                /\ UNCHANGED <<sets, origin, snap>>
           ELSE /\ sets' = Derived(sets, p, r.values)
                /\ origin' = Append(origin, [parent |-> p, query |-> prog])
                /\ snap' = Append(snap, r.values)
                /\ qret' = [op |-> "derive", parent |-> p, query |-> prog,
                            result |-> "values", msg |-> ""]
                /\ qproc' = qproc
    /\ UNCHANGED notQuery

----------------------------------------------------------------------------
(* Geometry: tui's Rect and Block, and JexLayout. *)

MkRect(x, y, w, h) == [x |-> x, y |-> y, width |-> w, height |-> h]

\* u16::saturating_sub
SatSub(a, b) == IF a > b THEN a - b ELSE 0

\* Block::default().borders(Borders::ALL).inner(area)
Inner(area) ==
    MkRect(IF area.width > 0 THEN area.x + 1 ELSE area.x,
           IF area.height > 0 THEN area.y + 1 ELSE area.y,
           SatSub(area.width, 2), SatSub(area.height, 2))

\* The sizes the terminal takes.
TermSizes == {MkRect(0, 0, 8, 7), MkRect(0, 0, 12, 9)}

\* JexLayout::new(size, show_tree): the query bar is the last row; the tree
\* pane, when shown, the upper half of the rest; the left and right panes
\* share what is left, side by side.
JexLayoutNew(size, show_tree) ==
    LET body == SatSub(size.height, 1)
        treeH == IF show_tree THEN body \div 2 ELSE 0
        leftW == size.width \div 2
    IN  [left |-> MkRect(size.x, size.y + treeH, leftW, body - treeH),
         right |-> MkRect(size.x + leftW, size.y + treeH,
                          size.width - leftW, body - treeH),
         query |-> MkRect(size.x, size.y + body, size.width, size.height - body),
         tree |-> IF show_tree
                  THEN [some |-> TRUE, rect |-> MkRect(size.x, size.y, size.width, treeH)]
                  ELSE [some |-> FALSE]]

----------------------------------------------------------------------------
(* view_tree.rs and cursor.rs: a view over a value set. *)

\* An empty array or object is a leaf, rendered on one line.
IsContainer(j) ==
    \/ j.kind = "Array" /\ j.items # <<>>
    \/ j.kind = "Object" /\ j.fields # <<>>

ChildrenOf(j) ==
    IF j.kind = "Array" THEN j.items
    ELSE [i \in 1..Len(j.fields) |-> j.fields[i].value]

\* The lines of value j at path: its visible leaves, or the one line of a
\* folded container.
RECURSIVE LinesOf(_, _, _)
LinesOf(j, path, folds) ==
    IF IsContainer(j) /\ path \notin folds
    THEN LET cs == ChildrenOf(j)
         IN  Concat([i \in 1..Len(cs) |-> LinesOf(cs[i], Append(path, i), folds)])
    ELSE <<path>>

\* The visible-leaf sequence of a value set under a fold set.
VisibleLeaves(values, folds) ==
    Concat([i \in 1..Len(values) |-> LinesOf(values[i], <<i>>, folds)])

\* The value at a path of the value set.
RECURSIVE ValueAt(_, _)
ValueAt(j, path) ==
    IF path = <<>> THEN j ELSE ValueAt(ChildrenOf(j)[Head(path)], Tail(path))

LeafValue(values, path) == ValueAt(values[Head(path)], Tail(path))

\* The place of a path in a sequence of paths, 0 when it is not in it.
IndexOf(seq, x) ==
    IF \E i \in 1..Len(seq) : seq[i] = x
    THEN CHOOSE i \in 1..Len(seq) : seq[i] = x
    ELSE 0

Min(a, b) == IF a < b THEN a ELSE b
Max(a, b) == IF a > b THEN a ELSE b

ViewError(msg) == [kind |-> "Error", msg |-> msg]
\* View::Json(None): no values, no rendering state
ViewNone == [kind |-> "None"]

\* GlobalCursor::new: the first visible leaf.
CursorNew(values, width, folds) == VisibleLeaves(values, folds)[1]

\* GlobalCursor::new_end: the last visible leaf.
CursorNewEnd(values, width, folds) ==
    LET ls == VisibleLeaves(values, folds) IN ls[Len(ls)]

\* View::Json(Some(..)) over a value set that is not empty, View::Json(None)
\* over an empty one: no folds, cursor and scroll at the first leaf.
ViewNew(values, rect) ==
    IF values = <<>> THEN ViewNone
    ELSE [kind |-> "Json", values |-> values, folds |-> {},
          cursor |-> CursorNew(values, rect.width, {}),
          scroll |-> CursorNew(values, rect.width, {}),
          rect |-> rect]

\* JsonView::resize_to
ResizeTo(view, rect) == [view EXCEPT !.rect = rect]

\* The least scrolling from the top line `top` that keeps line i within a
\* viewport of h lines.
ScrollTo(top, i, h) ==
    IF i < top THEN i
    ELSE IF i > top + h - 1 THEN i - h + 1
    ELSE top

\* Moves the cursor to the leaf at place i of the visible leaves ls and
\* scrolls the least that keeps it within the viewport's height.
MoveCursorIn(view, ls, i) ==
    [view EXCEPT !.cursor = ls[i],
                 !.scroll = ls[ScrollTo(IndexOf(ls, view.scroll), i,
                                        Max(view.rect.height, 1))]]

MoveCursor(view, i) == MoveCursorIn(view, VisibleLeaves(view.values, view.folds), i)

\* The place of the cursor among the visible leaves, and their number.
CursorPlace(view) == IndexOf(VisibleLeaves(view.values, view.folds), view.cursor)

NumLeaves(view) == Len(VisibleLeaves(view.values, view.folds))

\* JsonView::advance_cursor / regress_cursor: saturating at the ends.
AdvanceCursor(view) == MoveCursor(view, Min(CursorPlace(view) + 1, NumLeaves(view)))

RegressCursor(view) == MoveCursor(view, Max(CursorPlace(view) - 1, 1))

\* JsonView::page_down / page_up: one viewport height of lines.
PageDown(view) ==
    MoveCursor(view, Min(CursorPlace(view) + Max(view.rect.height, 1), NumLeaves(view)))

PageUp(view) ==
    MoveCursor(view, Max(CursorPlace(view) - Max(view.rect.height, 1), 1))

\* JsonView::toggle_fold: unfolds the folded container under the cursor,
\* else folds the container the cursor's leaf is in; the cursor, and the
\* scroll position when the fold hides it, go to the container's line.
ToggleFold(view) ==
    IF view.cursor \in view.folds
    THEN LET folds == view.folds \ {view.cursor}
             first == LinesOf(LeafValue(view.values, view.cursor), view.cursor, folds)[1]
             sameTop == view.scroll = view.cursor
         IN  [view EXCEPT !.folds = folds, !.cursor = first,
                          !.scroll = IF sameTop THEN first ELSE @]
    ELSE IF Len(view.cursor) > 1
    THEN LET parent == SubSeq(view.cursor, 1, Len(view.cursor) - 1)
             folds == view.folds \cup {parent}
             hidden == IndexOf(VisibleLeaves(view.values, folds), view.scroll) = 0
         IN  [view EXCEPT !.folds = folds, !.cursor = parent,
                          !.scroll = IF hidden THEN parent ELSE @]
    ELSE view

\* The text a leaf's line is searched in.
LeafText(values, path, folds) ==
    LET j == LeafValue(values, path)
    IN  CASE IsContainer(j) -> "..."
          [] j.kind = "Number" -> ToString(j.num)
          [] j.kind = "String" -> j.str
          [] j.kind = "Null" -> "null"
          [] j.kind = "True" -> "true"
          [] j.kind = "False" -> "false"
          [] OTHER -> "[]"

\* Regex::new(text): the patterns the model commits at the search prompt.
\* "(" is no regular expression; the others match the lines they equal.
RegexNew(text) ==
    IF text = "(" THEN [ok |-> FALSE, err |-> "unclosed group"]
    ELSE [ok |-> TRUE, re |-> text]

IsMatch(re, text) == re = text

\* JsonView search: the cursor goes to the next (reverse: the previous)
\* visible leaf whose line matches, wrapping around; it stays when no other
\* leaf matches.
\* The place k leaves after place `at` (reverse: before it) among n leaves.
PlaceFrom(at, k, n, reverse) ==
    IF reverse THEN ((at - 1 - k + n) % n) + 1 ELSE ((at - 1 + k) % n) + 1

\* The least of a set of numbers that is not empty.
Least(S) == CHOOSE k \in S : \A m \in S : k <= m

SearchFrom(view, ls, at, hits, reverse) ==
    IF hits = {} THEN view
    ELSE MoveCursorIn(view, ls, PlaceFrom(at, Least(hits), Len(ls), reverse))

SearchIn(view, ls, at, re, reverse) ==
    SearchFrom(view, ls, at,
               {k \in 1..(Len(ls) - 1) :
                   IsMatch(re, LeafText(view.values,
                                        ls[PlaceFrom(at, k, Len(ls), reverse)],
                                        view.folds))},
               reverse)

SearchView(view, re, reverse) ==
    SearchIn(view, VisibleLeaves(view.values, view.folds), CursorPlace(view), re, reverse)

----------------------------------------------------------------------------
(* app.rs and view_tree.rs: the App and its forest of frames. *)

\* The content of the file in.json.
DocA == <<JvArray(<<JvNumber(1), JvNumber(2)>>)>>

\* ViewFrame
Frame(name, query, view) == [name |-> name, query |-> query, view |-> view]

\* ViewForestIndex: a tree of the forest and a path of child places in it.
MkIndex(tree, path) == [tree |-> tree, path |-> path]

\* The forest is a function from a frame's key, its tree followed by its
\* path, to the frame.
IndexKey(index) == <<index.tree>> \o index.path

IsPrefix(p, k) == Len(p) <= Len(k) /\ SubSeq(k, 1, Len(p)) = p

ChildKeys(views, key) ==
    {k \in DOMAIN views : Len(k) = Len(key) + 1 /\ IsPrefix(key, k)}

NumTrees(views) == Cardinality({k \in DOMAIN views : Len(k) = 1})

\* ViewTree::index_tree_mut: None when the path leads to no frame.
IndexTree(views, index) ==
    IF IndexKey(index) \in DOMAIN views
    THEN [some |-> TRUE, frame |-> views[IndexKey(index)]]
    ELSE [some |-> FALSE]

\* The view of a frame derived from its parent's values by a query: an
\* error view when the query does not compile or fails on a value, else a
\* fresh view over the results in order.
ViewOfResults(outs, failed, rect) ==
    IF failed # {}
    THEN ViewError(outs[Least(failed)][Len(outs[Least(failed)])].msg)
    ELSE ViewNew(Concat([i \in 1..Len(outs) |-> SubSeq(outs[i], 1, Len(outs[i]) - 1)]),
                 rect)

ViewOfOutputs(outs, rect) ==
    ViewOfResults(outs, {i \in 1..Len(outs) : outs[i][Len(outs[i])].msg # ""}, rect)

DeriveView(parent, query, rect) ==
    IF query \notin ValidPrograms THEN ViewError("compile error")
    ELSE IF parent.kind # "Json" THEN ViewNone
    ELSE ViewOfOutputs([i \in 1..Len(parent.values) |-> JqEval(query, parent.values[i])],
                       rect)

\* ViewTree::push_trivial_child: a new last child, derived by the identity.
PushTrivialChild(views, key, rect) ==
    LET child == Append(key, Cardinality(ChildKeys(views, key)) + 1)
        frame == Frame("", ProgIdentity, DeriveView(views[key].view, ProgIdentity, rect))
    IN  [k \in DOMAIN views \cup {child} |-> IF k = child THEN frame ELSE views[k]]

\* ViewTree::new_from_reader: the root over the document, with a trivial child.
NewTree(views, tree, content, name, layout) ==
    LET root == Frame(name, <<>>, ViewNew(content, layout.left))
        rooted == [k \in DOMAIN views \cup {<<tree>>} |->
                      IF k = <<tree>> THEN root ELSE views[k]]
    IN  PushTrivialChild(rooted, <<tree>>, layout.right)

\* The frames of a tree, a parent before its children.
RECURSIVE Walk(_, _)
Walk(views, key) ==
    <<key>> \o Concat([i \in 1..Cardinality(ChildKeys(views, key)) |->
                          Walk(views, Append(key, i))])

ForestOrder(views) == Concat([t \in 1..NumTrees(views) |-> Walk(views, <<t>>)])

\* ViewForestIndex::advance / regress: the next / previous frame of the
\* forest, staying at the ends.
IndexOfKey(k) == MkIndex(Head(k), Tail(k))

IndexMoved(index, order, i, by) ==
    IF i = 0 THEN index
    ELSE IndexOfKey(order[Max(Min(i + by, Len(order)), 1)])

IndexAdvance(index, views) ==
    IndexMoved(index, ForestOrder(views),
               IndexOf(ForestOrder(views), IndexKey(index)), 1)

IndexRegress(index, views) ==
    IndexMoved(index, ForestOrder(views),
               IndexOf(ForestOrder(views), IndexKey(index)), -1)

NoFlash == [shown |-> FALSE, msg |-> "", scroll |-> 0]

NoRegex == [some |-> FALSE]

\* App::new
AppNew(content, name, layout) ==
    [views |-> NewTree(<<>>, 1, content, name, layout),
     left_index |-> MkIndex(1, <<>>),
     right_index |-> MkIndex(1, <<1>>),
     focus |-> "Left",
     search_re |-> NoRegex,
     show_tree |-> FALSE,
     flash |-> NoFlash]

\* App::focused_index
FocusedIndex(a) == IF a.focus = "Left" THEN a.left_index ELSE a.right_index

\* App::focused_query_mut: a root has no query.
FocusedQuery(a) ==
    LET index == FocusedIndex(a)
    IN  IF IndexTree(a.views, index).some /\ index.path # <<>>
        THEN [some |-> TRUE, query |-> a.views[IndexKey(index)].query]
        ELSE [some |-> FALSE]

\* App::set_flash
SetFlash(a, msg) == [a EXCEPT !.flash = [shown |-> TRUE, msg |-> msg, scroll |-> 0]]

\* App::show_help
ShowHelp(a) == SetFlash(a, "help")

\* App::resize: the views in the two panes take their panes' inner rects.
AppResize(a, layout) ==
    LET Fit(views, index, rect) ==
            IF IndexTree(views, index).some /\ views[IndexKey(index)].view.kind = "Json"
            THEN [views EXCEPT ![IndexKey(index)].view = ResizeTo(@, Inner(rect))]
            ELSE views
    IN  [a EXCEPT !.views = Fit(Fit(@, a.left_index, layout.left),
                                a.right_index, layout.right)]

\* App::recompute_focused_view: the focused frame's view is derived anew
\* from its parent's view by the frame's query.
RecomputeFocusedView(a, rect) ==
    LET key == IndexKey(FocusedIndex(a))
        parent == SubSeq(key, 1, Len(key) - 1)
    IN  [a EXCEPT !.views[key].view =
                      DeriveView(a.views[parent].view, a.views[key].query, rect)]

\* App::re_root: the frame at index becomes the root of the only tree; an
\* index into its subtree follows it, any other index goes to the new root.
ReRoot(a, index) ==
    LET K == IndexKey(index)
        Rebase(k) == <<1>> \o SubSeq(k, Len(K) + 1, Len(k))
        kept == {k \in DOMAIN a.views : IsPrefix(K, k)}
        ReIndex(i) == IF IsPrefix(K, IndexKey(i))
                      THEN MkIndex(1, Tail(Rebase(IndexKey(i))))
                      ELSE MkIndex(1, <<>>)
    IN  [a EXCEPT !.views = [k \in {Rebase(k) : k \in kept} |-> a.views[K \o Tail(k)]],
                  !.left_index = ReIndex(@),
                  !.right_index = ReIndex(@)]

\* App::open_file: a new last tree over the file's document, shown in the
\* two panes; an error when the file cannot be read.
OpenFile(a, path, io, layout) ==
    IF io = "err" THEN [ok |-> FALSE, err |-> "No such file", app |-> a]
    ELSE LET t == NumTrees(a.views) + 1
         IN  [ok |-> TRUE,
              app |-> [a EXCEPT !.views = NewTree(@, t, DocA, path, layout),
                                !.left_index = MkIndex(t, <<>>),
                                !.right_index = MkIndex(t, <<1>>)]]

\* JsonView::save_to: the result of writing the values to the path.
SaveTo(view, path, io) ==
    IF io = "err" THEN [ok |-> FALSE, err |-> "Permission denied"] ELSE [ok |-> TRUE]

\* App::search: the focused view's cursor goes to the next match of
\* search_re; nothing happens without a search_re.
AppSearch(a, reverse) ==
    LET key == IndexKey(FocusedIndex(a))
    IN  IF a.search_re.some /\ key \in DOMAIN a.views /\ a.views[key].view.kind = "Json"
        THEN [a EXCEPT !.views[key].view = SearchView(@, a.search_re.re, reverse)]
        ELSE a

----------------------------------------------------------------------------
(* main.rs: the interactive loop of run. *)

MaxEvents == 4

KeyCodes ==
    {"Esc", "t", "q", "Tab", "+", "j", "k", "r", "s", "o", "h", "Down", "Up",
     "PageDown", "PageUp", "z", "/", "n", "N", "Home", "End", "x"}

\* The draw a key event can fail at: the one that ends the iteration and, for
\* a key that opens a prompt, the one before the prompt and the forced one
\* after it.
DrawSites(code) ==
    IF code \in {"q", "r", "s", "o", "/"}
    THEN {"editor", "force", "final"}
    ELSE {"final"}

\* What the prompt a key opens is answered with: readline's Err(_) on a
\* cancel, or Ok(text).
Answers(code) ==
    {[ok |-> FALSE]} \cup
    {[ok |-> TRUE, text |-> t] :
        t \in CASE code = "q" -> {ProgEach, ProgEmpty, ProgBadSyntax}
               [] code = "r" -> {"notes"}
               [] code = "s" -> {"out.json"}
               [] code = "o" -> {"in.json"}
               [] code = "/" -> {"2", "("}
               [] OTHER -> {}}

\* The key events with a code: the key, what the prompt it opens is answered
\* with, whether the file operation it starts succeeds, and the draw that
\* fails, if one does.
KeyEvents(code) ==
    {[type |-> "Key", code |-> code, prompt |-> p, io |-> i, fail |-> f] :
        p \in Answers(code),
        i \in IF code \in {"s", "o"} THEN {"ok", "err"} ELSE {"ok"},
        f \in DrawSites(code) \cup {"none"}}

ResizeEvents ==
    {[type |-> "Resize", size |-> sz, fail |-> f] :
        sz \in TermSizes, f \in {"none", "final"}}

\* terminal.draw(..)? and force_draw(..)?: an error ends run; the draw before
\* a prompt is in InputEditor mode, the others are in Normal mode and counted.
Draw(s, e, site) ==
    IF s.run # "loop" THEN s
    ELSE IF e.fail = site THEN [s EXCEPT !.run = "Err"]
    ELSE IF site = "editor" THEN s
    ELSE [s EXCEPT !.drawn = @ + 1]

\* .expect("App index invalidated")
Panicked(s) == [s EXCEPT !.run = "panic"]

\* event::Event::Resize
OnResize(s, e) ==
    LET layout == JexLayoutNew(e.size, s.app.show_tree)
    IN  Draw([s EXCEPT !.app = AppResize(@, layout), !.size = e.size], e, "final")

\* A flash that forwards Tab to the panes.
FlashKeysForwardTab(a, code) ==
    CASE code = "Esc" -> [a EXCEPT !.flash = NoFlash]
      [] code = "Down" -> [a EXCEPT !.flash.scroll = @ + 1]
      [] code = "Up" -> [a EXCEPT !.flash.scroll = SatSub(@, 1)]
      [] code = "Tab" -> [a EXCEPT !.focus = IF @ = "Left" THEN "Right" ELSE "Left"]
      [] OTHER -> a

\* The keys while a flash is shown.
FlashKeys(a, code) ==
    CASE code = "Esc" -> [a EXCEPT !.flash = NoFlash]
      [] code = "Down" -> [a EXCEPT !.flash.scroll = @ + 1]
      [] code = "Up" -> [a EXCEPT !.flash.scroll = SatSub(@, 1)]
      [] OTHER -> a

\* A flash that goes on to the next event without a redraw.
OnFlashNoRedraw(s, e) == [s EXCEPT !.app = FlashKeys(@, e.code)]

OnFlash(s, e) == Draw([s EXCEPT !.app = FlashKeys(@, e.code)], e, "final")

\* A 'q' that keeps the old query when the committed text is not a program.
OnQKeepsQuery(s, e, layout) ==
    IF ~FocusedQuery(s.app).some THEN s
    ELSE LET s1 == Draw(s, e, "editor")
             key == IndexKey(FocusedIndex(s.app))
         IN  IF s1.run # "loop" \/ ~e.prompt.ok THEN s1
             ELSE LET s2 == Draw([s1 EXCEPT !.app.views[key].query =
                                      IF e.prompt.text \in ValidPrograms
                                      THEN e.prompt.text ELSE @],
                                 e, "force")
                  IN  IF s2.run # "loop" THEN s2
                      ELSE [s2 EXCEPT !.app = RecomputeFocusedView(@, layout.right)]

\* 'q': edit the focused frame's query
OnQ(s, e, layout) ==
    IF ~FocusedQuery(s.app).some THEN s
    ELSE LET s1 == Draw(s, e, "editor")
             key == IndexKey(FocusedIndex(s.app))
         IN  IF s1.run # "loop" \/ ~e.prompt.ok THEN s1
             ELSE LET s2 == Draw([s1 EXCEPT !.app.views[key].query = e.prompt.text],
                                 e, "force")
                  IN  IF s2.run # "loop" THEN s2
                      ELSE [s2 EXCEPT !.app = RecomputeFocusedView(@, layout.right)]

\* '+': a trivial child of the focused frame
OnPlus(s, layout) ==
    LET index == FocusedIndex(s.app)
        rect == IF s.app.focus = "Left" THEN layout.left ELSE layout.right
    IN  IF ~IndexTree(s.app.views, index).some THEN Panicked(s)
        ELSE [s EXCEPT !.app.views = PushTrivialChild(@, IndexKey(index), rect)]

\* 'j' / 'k': the focused pane shows the next / previous frame
OnJ(s) ==
    IF s.app.focus = "Left"
    THEN [s EXCEPT !.app.left_index = IndexAdvance(@, s.app.views)]
    ELSE [s EXCEPT !.app.right_index = IndexAdvance(@, s.app.views)]

OnK(s) ==
    IF s.app.focus = "Left"
    THEN [s EXCEPT !.app.left_index = IndexRegress(@, s.app.views)]
    ELSE [s EXCEPT !.app.right_index = IndexRegress(@, s.app.views)]

\* 'r': rename the focused frame
OnR(s, e) ==
    LET s1 == Draw(s, e, "editor")
        index == FocusedIndex(s.app)
    IN  IF s1.run # "loop" THEN s1
        ELSE IF ~IndexTree(s.app.views, index).some THEN Panicked(s1)
        ELSE Draw(IF e.prompt.ok
                  THEN [s1 EXCEPT !.app.views[IndexKey(index)].name = e.prompt.text]
                  ELSE s1,
                  e, "force")

\* A save that renames the frame before it knows the result.
AfterSaveRenamesFirst(a, path, result) ==
    LET named == [a EXCEPT !.views[IndexKey(FocusedIndex(a))].name = path]
    IN  IF ~result.ok
        THEN [app |-> named, flash |-> [some |-> TRUE, msg |-> "Error saving json"]]
        ELSE [app |-> ReRoot(named, FocusedIndex(a)), flash |-> [some |-> FALSE]]

\* What follows view.save_to(&path): the error to flash, or the rename and
\* the re-rooting.
AfterSave(a, path, result) ==
    IF ~result.ok
    THEN [app |-> a, flash |-> [some |-> TRUE, msg |-> "Error saving json"]]
    ELSE [app |-> ReRoot([a EXCEPT !.views[IndexKey(FocusedIndex(a))].name = path],
                         FocusedIndex(a)),
          flash |-> [some |-> FALSE]]

\* if let Some(flash) = flash { app.set_flash(flash) }
Flashed(done) ==
    IF done.flash.some THEN SetFlash(done.app, done.flash.msg) ELSE done.app

\* 's': save the focused frame's values
OnS(s, e) ==
    LET s1 == Draw(s, e, "editor")
        index == FocusedIndex(s.app)
    IN  IF s1.run # "loop" THEN s1
        ELSE IF ~IndexTree(s.app.views, index).some THEN Panicked(s1)
        ELSE LET view == s.app.views[IndexKey(index)].view
             IN  Draw([s1 EXCEPT !.app =
                          Flashed(IF view.kind = "Json" /\ e.prompt.ok
                                  THEN AfterSave(s.app, e.prompt.text,
                                                 SaveTo(view, e.prompt.text, e.io))
                                  ELSE [app |-> s.app, flash |-> [some |-> FALSE]])],
                      e, "force")

\* app.open_file(path, layout).err().map(|err| err.to_string())
AfterOpen(opened) ==
    [app |-> opened.app,
     flash |-> IF opened.ok THEN [some |-> FALSE] ELSE [some |-> TRUE, msg |-> opened.err]]

\* 'o': open a file
OnO(s, e, layout) ==
    LET s1 == Draw(s, e, "editor")
    IN  IF s1.run # "loop" THEN s1
        ELSE Draw([s1 EXCEPT !.app =
                      Flashed(IF e.prompt.ok
                              THEN AfterOpen(OpenFile(s.app, e.prompt.text, e.io, layout))
                              ELSE [app |-> s.app, flash |-> [some |-> FALSE]])],
                  e, "force")

\* The first match on the key's code.
KeyArm(s, e, layout) ==
    CASE e.code = "Esc" -> [s EXCEPT !.run = "Ok"]
      [] e.code = "t" -> [s EXCEPT !.app.show_tree = ~@]
      [] e.code = "q" -> OnQ(s, e, layout)
      [] e.code = "Tab" -> [s EXCEPT !.app.focus = IF @ = "Left" THEN "Right" ELSE "Left"]
      [] e.code = "+" -> OnPlus(s, layout)
      [] e.code = "j" -> OnJ(s)
      [] e.code = "k" -> OnK(s)
      [] e.code = "r" -> OnR(s, e)
      [] e.code = "s" -> OnS(s, e)
      [] e.code = "o" -> OnO(s, e, layout)
      [] e.code = "h" -> [s EXCEPT !.app = ShowHelp(@)]
      [] OTHER -> s

\* '/': the search prompt
OnSearch(s, e) ==
    LET s1 == Draw(s, e, "editor")
    IN  IF s1.run # "loop" \/ ~e.prompt.ok THEN s1
        ELSE LET s2 == Draw(s1, e, "force")
                 re == RegexNew(e.prompt.text)
             IN  IF s2.run # "loop" THEN s2
                 ELSE [s2 EXCEPT !.app =
                          AppSearch([@ EXCEPT !.search_re =
                                        IF re.ok THEN [some |-> TRUE, re |-> re.re]
                                        ELSE NoRegex],
                                    FALSE)]

\* A second match whose End goes where Home goes.
NavKeyEndGoesHome(s, key, e) ==
    LET view == s.app.views[key].view
        Set(v) == [s EXCEPT !.app.views[key].view = v]
    IN  CASE e.code = "Down" -> Set(AdvanceCursor(view))
          [] e.code = "Up" -> Set(RegressCursor(view))
          [] e.code = "PageDown" -> Set(PageDown(view))
          [] e.code = "PageUp" -> Set(PageUp(view))
          [] e.code = "z" -> Set(ToggleFold(view))
          [] e.code = "/" -> OnSearch(s, e)
          [] e.code = "n" -> [s EXCEPT !.app = AppSearch(@, FALSE)]
          [] e.code = "N" -> [s EXCEPT !.app = AppSearch(@, TRUE)]
          [] e.code \in {"Home", "End"} ->
                LET c == CursorNew(view.values, view.rect.width, view.folds)
                IN  Set([view EXCEPT !.scroll = c, !.cursor = c])
          [] OTHER -> s

\* The second match on the key's code, for a focused view with rendering state.
NavKey(s, key, e) ==
    LET view == s.app.views[key].view
        Set(v) == [s EXCEPT !.app.views[key].view = v]
    IN  CASE e.code = "Down" -> Set(AdvanceCursor(view))
          [] e.code = "Up" -> Set(RegressCursor(view))
          [] e.code = "PageDown" -> Set(PageDown(view))
          [] e.code = "PageUp" -> Set(PageUp(view))
          [] e.code = "z" -> Set(ToggleFold(view))
          [] e.code = "/" -> OnSearch(s, e)
          [] e.code = "n" -> [s EXCEPT !.app = AppSearch(@, FALSE)]
          [] e.code = "N" -> [s EXCEPT !.app = AppSearch(@, TRUE)]
          [] e.code = "Home" ->
                LET c == CursorNew(view.values, view.rect.width, view.folds)
                IN  Set([view EXCEPT !.scroll = c, !.cursor = c])
          [] e.code = "End" ->
                LET c == CursorNewEnd(view.values, view.rect.width, view.folds)
                IN  Set([view EXCEPT !.scroll = c, !.cursor = c])
          [] OTHER -> s

\* A second match that opens the search prompt whatever the focused frame holds.
ViewArmSearchesWithoutView(s, e, layout) ==
    LET view_rect == IF s.app.focus = "Left" THEN layout.left ELSE layout.right
        index == FocusedIndex(s.app)
        key == IndexKey(index)
        json_rect == Inner(view_rect)
    IN  IF ~IndexTree(s.app.views, index).some THEN Panicked(s)
        ELSE IF s.app.views[key].view.kind # "Json"
        THEN Draw(IF e.code = "/" THEN OnSearch(s, e) ELSE s, e, "final")
        ELSE Draw(NavKey([s EXCEPT !.app.views[key].view = ResizeTo(@, json_rect)],
                         key, e),
                  e, "final")

\* A second match that leaves the focused view the rectangle it had.
ViewArmNoResize(s, e, layout) ==
    LET index == FocusedIndex(s.app)
        key == IndexKey(index)
    IN  IF ~IndexTree(s.app.views, index).some THEN Panicked(s)
        ELSE IF s.app.views[key].view.kind # "Json" THEN Draw(s, e, "final")
        ELSE Draw(NavKey(s, key, e), e, "final")

\* What every key outside a flash ends with: the focused view takes its
\* pane's inner rect, the navigation keys act on it, the screen is drawn.
ViewArm(s, e, layout) ==
    LET view_rect == IF s.app.focus = "Left" THEN layout.left ELSE layout.right
        index == FocusedIndex(s.app)
        key == IndexKey(index)
        json_rect == Inner(view_rect)
    IN  IF ~IndexTree(s.app.views, index).some THEN Panicked(s)
        ELSE IF s.app.views[key].view.kind # "Json" THEN Draw(s, e, "final")
        ELSE Draw(NavKey([s EXCEPT !.app.views[key].view = ResizeTo(@, json_rect)],
                         key, e),
                  e, "final")

\* Esc has left the loop, a failed draw or a panic has left run; any other
\* key goes on to the second match.
AfterKeyArm(s, e, layout) ==
    IF s.run # "loop" THEN s ELSE ViewArm(s, e, layout)

\* One iteration of the loop on an event, from the state s = [app, size, run,
\* drawn], drawn the number of Normal-mode draws of the iteration.
Step(s, e) ==
    IF e.type = "Mouse" THEN Panicked(s)
    ELSE IF e.type = "Resize" THEN OnResize(s, e)
    ELSE LET layout == JexLayoutNew(s.size, s.app.show_tree)
         IN  IF s.app.flash.shown THEN OnFlash(s, e)
             ELSE AfterKeyArm(KeyArm(s, e, layout), e, layout)

\* No App: before App::new, and when run is left before one was built.
AppGone == [gone |-> TRUE, fate |-> "none", released |-> 0]

\* A run that lets the App go out of scope on every exit.
AppEndAlwaysDrops(a, how) ==
    IF "gone" \in DOMAIN a THEN a
    ELSE [gone |-> TRUE, fate |-> "dropped",
          released |-> Cardinality(DOMAIN a.views)]

\* The App as run is left. Ok(()) comes after std::mem::forget(app): no
\* destructor runs and none of its frames' values and programs is released.
\* A return by ? and a panic's unwinding drop the App with run's other
\* locals: every frame is released.
AppEnd(a, how) ==
    IF "gone" \in DOMAIN a THEN a
    ELSE IF how = "Ok"
    THEN [gone |-> TRUE, fate |-> "forgotten", released |-> 0]
    ELSE [gone |-> TRUE, fate |-> "dropped",
          released |-> Cardinality(DOMAIN a.views)]

\* The terminal before run: cooked mode, main screen, the default panic hook,
\* no guard.
TermPlain == [raw |-> FALSE, alt |-> FALSE, hook |-> FALSE, defer |-> FALSE]

\* disable_raw_mode() and LeaveAlternateScreen
RestoreTerminal(t) == [t EXCEPT !.raw = FALSE, !.alt = FALSE]

\* Drop for DeferRestoreTerminal, when the guard _defer is alive.
DropDefer(t) == IF t.defer THEN [RestoreTerminal(t) EXCEPT !.defer = FALSE] ELSE t

\* A run that returns without dropping its guard.
LeaveRunKeepsGuardOnReturn(t, how) ==
    CASE how = "loop" -> t
      [] how = "panic" -> DropDefer(IF t.hook THEN RestoreTerminal(t) ELSE t)
      [] OTHER -> t

\* The terminal as run is left: a return drops _defer; a panic runs the panic
\* hook, when run has set it, and then unwinds through _defer. The loop going
\* on leaves the terminal as it is.
LeaveRun(t, how) ==
    CASE how = "loop" -> t
      [] how = "panic" -> DropDefer(IF t.hook THEN RestoreTerminal(t) ELSE t)
      [] OTHER -> DropDefer(t)

Now == [app |-> app, size |-> term_size, run |-> run, drawn |-> 0]

\* The iteration ends in n: the loop goes on with n's App, or run is over and
\* its App is forgotten or dropped.
Becomes(n) ==
    /\ run' = n.run
    /\ term_size' = n.size
    /\ app' = IF n.run = "loop" THEN n.app ELSE AppEnd(n.app, n.run)
    /\ term' = LeaveRun(term, n.run)

\* event::read(): the loop is followed for MaxEvents events.
Handle(e) ==
    /\ run = "loop"
    /\ events < MaxEvents
    /\ events' = events + 1
    /\ Becomes(Step(Now, e))

InitAppVars ==
    /\ term_size \in TermSizes
    /\ app = AppGone
    /\ run = "start"
    /\ events = 0
    /\ term = TermPlain

\* enable_raw_mode().expect(..)
EnableRawMode(ok) ==
    /\ run = "start"
    /\ run' = IF ok THEN "raw" ELSE "panic"
    /\ term' = IF ok THEN [term EXCEPT !.raw = TRUE] ELSE LeaveRun(term, "panic")
    /\ UNCHANGED <<app, term_size, events>>

\* execute!(stdout, EnterAlternateScreen).expect(..), then the panic hook is
\* set and the guard _defer is created.
EnterAlternateScreen(ok) ==
    /\ run = "raw"
    /\ run' = IF ok THEN "init" ELSE "panic"
    /\ term' = IF ok THEN [term EXCEPT !.alt = TRUE, !.hook = TRUE, !.defer = TRUE]
               ELSE LeaveRun(term, "panic")
    /\ UNCHANGED <<app, term_size, events>>

\* The rest of the start-up: the terminal, the App over the document, the
\* first draw, the line editors. Each can return an error, before the App is
\* built or after; how == "panic" is a panic under App::new.
StartUp(how) ==
    /\ run = "init"
    /\ run' = how
    /\ LET new == AppNew(DocA, "in.json", JexLayoutNew(term_size, FALSE))
       IN  app' \in CASE how = "loop" -> {new}
                      [] how = "Err" -> {AppGone, AppEnd(new, how)}
                      [] OTHER -> {AppGone}
    /\ term' = LeaveRun(term, how)
    /\ UNCHANGED <<term_size, events>>

----------------------------------------------------------------------------
(* The specifications. *)

NextJQ ==
    \/ \E s \in ProgramTexts : Compile(s)
    \/ \E id \in JQIds, v \in JsonValues : Execute(id, v)
    \/ \E id \in JQIds : Next(id)
    \/ \E id \in JQIds : DropResults(id)
    \/ \E id \in JQIds : DropJQ(id)

NextQuery == \E p \in 1..MaxSets, prog \in ValidPrograms : Derive(p, prog)

QueryIdle ==
    /\ sets = <<>>
    /\ origin = <<>>
    /\ snap = <<>>
    /\ qproc = "running"
    /\ qret = [op |-> "none"]

JQIdle == InitJQVars

AppIdle ==
    /\ app = AppGone
    /\ term_size = MkRect(0, 0, 0, 0)
    /\ run = "Ok"
    /\ events = 0
    /\ term = TermPlain

NextApp ==
    \/ \E ok \in BOOLEAN : EnableRawMode(ok) /\ UNCHANGED notApp
    \/ \E ok \in BOOLEAN : EnterAlternateScreen(ok) /\ UNCHANGED notApp
    \/ \E how \in {"loop", "Err", "panic"} : StartUp(how) /\ UNCHANGED notApp
    \/ \E e \in ResizeEvents : Handle(e) /\ UNCHANGED notApp
    \/ Handle([type |-> "Mouse"]) /\ UNCHANGED notApp
    \/ \E e \in KeyEvents("Esc") : Handle(e) /\ UNCHANGED notApp
    \/ \E e \in KeyEvents("t") : Handle(e) /\ UNCHANGED notApp
    \/ \E e \in KeyEvents("q") : Handle(e) /\ UNCHANGED notApp
    \/ \E e \in KeyEvents("Tab") : Handle(e) /\ UNCHANGED notApp
    \/ \E e \in KeyEvents("+") : Handle(e) /\ UNCHANGED notApp
    \/ \E e \in KeyEvents("j") : Handle(e) /\ UNCHANGED notApp
    \/ \E e \in KeyEvents("k") : Handle(e) /\ UNCHANGED notApp
    \/ \E e \in KeyEvents("r") : Handle(e) /\ UNCHANGED notApp
    \/ \E e \in KeyEvents("s") : Handle(e) /\ UNCHANGED notApp
    \/ \E e \in KeyEvents("o") : Handle(e) /\ UNCHANGED notApp
    \/ \E e \in KeyEvents("h") : Handle(e) /\ UNCHANGED notApp
    \/ \E e \in KeyEvents("Down") : Handle(e) /\ UNCHANGED notApp
    \/ \E e \in KeyEvents("Up") : Handle(e) /\ UNCHANGED notApp
    \/ \E e \in KeyEvents("PageDown") : Handle(e) /\ UNCHANGED notApp
    \/ \E e \in KeyEvents("PageUp") : Handle(e) /\ UNCHANGED notApp
    \/ \E e \in KeyEvents("z") : Handle(e) /\ UNCHANGED notApp
    \/ \E e \in KeyEvents("/") : Handle(e) /\ UNCHANGED notApp
    \/ \E e \in KeyEvents("n") : Handle(e) /\ UNCHANGED notApp
    \/ \E e \in KeyEvents("N") : Handle(e) /\ UNCHANGED notApp
    \/ \E e \in KeyEvents("Home") : Handle(e) /\ UNCHANGED notApp
    \/ \E e \in KeyEvents("End") : Handle(e) /\ UNCHANGED notApp
    \/ \E e \in KeyEvents("x") : Handle(e) /\ UNCHANGED notApp

InitJQ == InitJQVars /\ QueryIdle /\ AppIdle

SpecJQ == InitJQ /\ [][NextJQ]_vars

InitQuery == InitQueryVars /\ JQIdle /\ AppIdle

SpecQuery == InitQuery /\ [][NextQuery]_vars

InitApp == InitAppVars /\ JQIdle /\ QueryIdle

SpecApp == InitApp /\ [][NextApp]_vars

----------------------------------------------------------------------------
(* Properties of the JQ wrapper, checked under SpecJQ. *)

\* results.map(|jv| jv.to_serde().unwrap()).collect(), as the round-trip
\* test collects a result sequence.
CollectToSerde(ys) ==
    IF \E i \in 1..Len(ys) : ~ToSerde(ys[i]).ok THEN [ok |-> FALSE]
    ELSE [ok |-> TRUE, values |-> [i \in 1..Len(ys) |-> ToSerde(ys[i]).v]]

\* C1: the round trip through the engine. For a value v, what the program
\* compiled from "." yields on JV::from_serde(v), converted back with
\* to_serde, is the one-element sequence <<v>> once the sequence has ended,
\* and nothing before the first result.
C1_RoundTrip ==
    \A id \in JQIds :
        (res[id].live > 0 /\ native[id].prog = ProgIdentity) =>
            LET back == CollectToSerde(res[id].yielded)
            IN  /\ back.ok
                /\ res[id].ended => back.values = <<res[id].input>>
                /\ ~res[id].ended =>
                        back.values \in {<<>>, <<res[id].input>>}

\* A nested object has gone through "." and its sequence has ended.
C1_Witness ==
    \E id \in JQIds :
        /\ res[id].live > 0 /\ res[id].ended
        /\ native[id].prog = ProgIdentity
        /\ res[id].input.t = "Object"
        /\ Len(res[id].yielded) = 1

\* C2: JQ::compile reports a failure by returning None, without panicking,
\* for a text with a syntax error and for a text with a NUL byte, and the
\* native state the attempt created is torn down.
C2_CompileFailureIsReturned ==
    \A id \in JQIds :
        jq[id].text \in {ProgBadSyntax, ProgWithNul} =>
            /\ jq[id].result = "None"
            /\ proc # "panicked"
            /\ jq[id].life = "dropped"
            /\ native[id].state = "freed"

\* C3: a native state is torn down exactly once when its JQ has ended,
\* whichever way (compile returning None, compile unwinding, a drop after
\* complete or abandoned result sequences), not before, never twice, and no
\* jq_compile, jq_start or jq_next reaches it after its teardown.
C3_TeardownExactlyOnce ==
    \A id \in JQIds :
        /\ ~native[id].misuse
        /\ native[id].teardowns <= 1
        /\ jq[id].life = "dropped" =>
                native[id].teardowns = 1 /\ native[id].state = "freed"
        /\ jq[id].life = "owned" =>
                native[id].teardowns = 0 /\ native[id].state = "compiled"
        /\ jq[id].life = "unborn" =>
                native[id].teardowns = 0 /\ native[id].state = "none"

\* One JQ ended by a compile that unwound, another was dropped after its
\* result sequence had been abandoned before its end.
C3_Witness ==
    \E a, b \in JQIds :
        /\ jq[a].result = "panic" /\ jq[a].life = "dropped"
        /\ jq[b].result = "Some" /\ jq[b].life = "dropped"
        /\ res[b].last = "abandoned"

\* The place of the first invalid value of a log, Len(log) + 1 without one.
FirstInvalid(log) ==
    IF \E i \in 1..Len(log) : log[i].kind = "Invalid"
    THEN CHOOSE i \in 1..Len(log) :
            /\ log[i].kind = "Invalid"
            /\ \A k \in 1..(i - 1) : log[k].kind # "Invalid"
    ELSE Len(log) + 1

\* C4: a result sequence yields, in order, exactly what jq_next returned
\* before its first invalid value, has ended exactly when jq_next has
\* returned an invalid value, and yields nothing after that.
C4_YieldsUpToFirstInvalid ==
    \A id \in JQIds :
        res[id].live > 0 =>
            LET log == native[id].log
                k == FirstInvalid(log)
            IN  /\ res[id].yielded = SubSeq(log, 1, k - 1)
                /\ res[id].ended = (k <= Len(log))
                /\ \A i \in 1..Len(res[id].yielded) :
                        res[id].yielded[i].kind # "Invalid"
                /\ res[id].late = <<>>

\* A sequence has yielded two values and then ended at the invalid value.
C4_Witness ==
    \E id \in JQIds :
        /\ res[id].live > 0 /\ res[id].ended
        /\ Len(res[id].yielded) = 2
        /\ Len(native[id].log) = 3

\* C5: at most one result sequence drives a JQ; while it is alive the JQ is
\* not torn down and the run in the native state is the one that sequence
\* started, on its input; and no native state is handed out by jq_init twice.
C5_OneExecutionPerProgram ==
    \A id \in JQIds :
        /\ res[id].live <= 1
        /\ native[id].inits <= 1
        /\ res[id].live = 1 =>
                /\ jq[id].life = "owned"
                /\ native[id].state = "compiled"
                /\ native[id].log \o native[id].pending
                        = JqEval(native[id].prog, FromSerde(res[id].input))

\* Two JQs from two compiles, each in the middle of a run of its own.
C5_Witness ==
    \E a, b \in JQIds :
        /\ a # b
        /\ res[a].live = 1 /\ res[b].live = 1
        /\ Len(res[a].yielded) = 1 /\ ~res[a].ended
        /\ native[a].prog # native[b].prog

----------------------------------------------------------------------------
(* Properties of run_jq_query, checked under SpecQuery. *)

\* The program raises an error on some value of the content.
ExecutionFails(content, prog) ==
    \E i \in 1..Len(content) : ~JqProgramRun(prog, SerdeToString(content[i])).ok

\* C6: when the execution of a query on a value set fails, the derivation
\* ends in an error outcome with a message, and nothing panics.
C6_ExecutionFailureIsAnErrorOutcome ==
    (qret.op = "derive" /\ ExecutionFails(sets[qret.parent], qret.query)) =>
        /\ qret.result = "error"
        /\ qret.msg # ""
        /\ qproc = "running"

\* C7: derivation isolation. Every value set, the parent's and each derived
\* one, is what it was when it was created, and each derived set still is
\* the result of its query on its parent.
C7_DerivationIsolation ==
    /\ Len(sets) = Len(snap)
    /\ \A i \in 1..Len(sets) : sets[i] = snap[i]
    /\ \A i \in 2..Len(sets) :
            LET r == RunJqQuery(sets[origin[i].parent], origin[i].query)
            IN  ~r.panic /\ sets[i] = r.values

\* Two sets derived from the same parent with different queries, and a
\* third derived after them.
C7_Witness ==
    \E i, j \in 2..Len(sets) :
        /\ i < j /\ j < Len(sets)
        /\ origin[i].parent = 1 /\ origin[j].parent = 1
        /\ origin[i].query # origin[j].query
        /\ sets[i] # sets[j]
        /\ sets[i] # sets[1]


----------------------------------------------------------------------------
(* The interactive loop: flash, save, search prompt. *)

Names(a) == [k \in DOMAIN a.views |-> a.views[k].name]

Queries(a) == [k \in DOMAIN a.views |-> a.views[k].query]

\* The cursor, scroll position and fold set of the focused view.
FocusedNav(a) ==
    LET view == a.views[IndexKey(FocusedIndex(a))].view
    IN  IF view.kind = "Json" THEN <<view.cursor, view.scroll, view.folds>>
        ELSE <<view.kind>>

\* The App with the viewport rects of its views left out.
Unsized(a) ==
    [a EXCEPT !.views =
        [k \in DOMAIN a.views |->
            IF a.views[k].view.kind = "Json"
            THEN [a.views[k] EXCEPT !.view.rect = MkRect(0, 0, 0, 0)]
            ELSE a.views[k]]]

\* What a key does to a shown flash.
FlashAfter(flash, code) ==
    CASE code = "Esc" -> NoFlash
      [] code = "Down" -> [flash EXCEPT !.scroll = @ + 1]
      [] code = "Up" -> [flash EXCEPT !.scroll = SatSub(@, 1)]
      [] OTHER -> flash

\* What a key event under a flash leaves as it was.
KeptUnderFlash(n) ==
    /\ n.app.focus = app.focus
    /\ n.app.show_tree = app.show_tree
    /\ Names(n.app) = Names(app)
    /\ Queries(n.app) = Queries(app)
    /\ n.app.left_index = app.left_index
    /\ n.app.right_index = app.right_index
    /\ FocusedNav(n.app) = FocusedNav(app)

\* The key event e, ending in n, was handled by the flash alone.
HandledByFlash(e, n) ==
    /\ KeptUnderFlash(n)
    /\ n.app.flash = FlashAfter(app.flash, e.code)
    /\ n.app.search_re = app.search_re
    /\ n.size = term_size

\* C8, as amended: while a flash is showing, every key event is handled by
\* the flash alone (Esc clears it, Down and Up change only its scroll offset,
\* any other key changes nothing); focus, show_tree, frame names, query
\* strings, both pane indices and the focused view's cursor, scroll position
\* and fold set are unchanged; and the loop goes on unless the redraw that
\* ends the iteration fails, in which case run returns the error.
C8_FlashHandlesKeysAlone ==
    run = "loop" /\ app.flash.shown =>
        \A code \in KeyCodes : \A e \in KeyEvents(code) :
            /\ HandledByFlash(e, Step(Now, e))
            /\ Step(Now, e).run = IF e.fail = "final" THEN "Err" ELSE "loop"

\* C8 as stated: as above, but the loop never exits on a key event under a
\* flash.
C8_LoopNeverExitsUnderFlash ==
    run = "loop" /\ app.flash.shown =>
        \A code \in KeyCodes : \A e \in KeyEvents(code) :
            /\ HandledByFlash(e, Step(Now, e))
            /\ Step(Now, e).run = "loop"

\* A flash that Down has scrolled, over a view whose cursor has left the
\* first leaf.
C8_Witness ==
    /\ run = "loop"
    /\ app.flash.shown
    /\ app.flash.scroll > 0
    /\ \E k \in DOMAIN app.views :
          /\ app.views[k].view.kind = "Json"
          /\ app.views[k].view.cursor # CursorNew(app.views[k].view.values, 0, {})

SaveErrorFlash == [shown |-> TRUE, msg |-> "Error saving json", scroll |-> 0]

\* The save reached view.save_to: the focused frame has rendering state, a
\* path was entered, and the prompt could be drawn.
SaveAttempted(e) ==
    /\ app.views[IndexKey(FocusedIndex(app))].view.kind = "Json"
    /\ e.prompt.ok
    /\ e.fail # "editor"

\* No frame renamed, the forest and the pane indices as they were.
NotReRooted(n) ==
    /\ Names(n.app) = Names(app)
    /\ n.app.left_index = app.left_index
    /\ n.app.right_index = app.right_index

\* The focused frame is the root of the only tree, under the path's name.
ReRootedAs(n, path) ==
    LET old == app.views[IndexKey(FocusedIndex(app))]
    IN  /\ NumTrees(n.app.views) = 1
        /\ n.app.views[<<1>>].name = path
        /\ n.app.views[<<1>>].query = old.query
        /\ n.app.views[<<1>>].view.values = old.view.values
        /\ IndexKey(FocusedIndex(n.app)) = <<1>>

\* C9, the save that fails and the save that succeeds: a failed save sets a
\* flash carrying the error, keeps the frame's name and does not re-root the
\* forest; the frame is renamed to the path and the forest re-rooted at it
\* only when the save succeeded.
SaveOutcomes(e, n) ==
    /\ SaveAttempted(e) /\ e.io = "err" =>
          n.app.flash = SaveErrorFlash /\ NotReRooted(n)
    /\ SaveAttempted(e) /\ e.io = "ok" =>
          ReRootedAs(n, e.prompt.text) /\ ~n.app.flash.shown
    /\ ~(SaveAttempted(e) /\ e.io = "ok") => NotReRooted(n)

C10_InvalidRegexIsFlashed ==
    run = "loop" /\ ~app.flash.shown =>
        \A e \in KeyEvents("/") :
            /\ app.views[IndexKey(FocusedIndex(app))].view.kind = "Json"
            /\ e.prompt.ok
            /\ ~RegexNew(e.prompt.text).ok
            /\ e.fail = "none"
            => /\ Step(Now, e).app.flash.shown
               /\ FocusedNav(Step(Now, e).app) = FocusedNav(app)

----------------------------------------------------------------------------
(* The interactive loop: a query edit that does not compile. *)

FocusedKey(a) == IndexKey(FocusedIndex(a))

\* Every frame but the focused one is as it was, and so are the forest's
\* shape, the pane indices, the focus and the flash.
OthersKept(n) ==
    /\ DOMAIN n.app.views = DOMAIN app.views
    /\ \A k \in DOMAIN app.views \ {FocusedKey(app)} : n.app.views[k] = app.views[k]
    /\ n.app.left_index = app.left_index
    /\ n.app.right_index = app.right_index
    /\ n.app.focus = app.focus
    /\ n.app.flash = app.flash

\* The edit e of the focused frame's query, committed with a text that does
\* not compile, ends in n.
BadQueryEdit(e, n) ==
    /\ n.run = IF e.fail = "none" THEN "loop" ELSE "Err"
    /\ OthersKept(n)
    /\ n.app.views[FocusedKey(app)].name = app.views[FocusedKey(app)].name
    /\ e.fail # "editor" => n.app.views[FocusedKey(app)].query = e.prompt.text
    /\ e.fail \in {"none", "final"} => n.app.views[FocusedKey(app)].view.kind = "Error"

----------------------------------------------------------------------------
(* The interactive loop: the layout applied to the focused view. *)

\* The pane the focused view is shown in.
FocusedPane(layout, focus) == IF focus = "Left" THEN layout.left ELSE layout.right

\* In n the focused view, when it has rendering state, has the inner
\* rectangle of its pane under the layout of n's terminal size and show_tree.
LayoutIsCurrent(n) ==
    n.run = "loop" /\ n.app.views[FocusedKey(n.app)].view.kind = "Json" =>
        n.app.views[FocusedKey(n.app)].view.rect =
            Inner(FocusedPane(JexLayoutNew(n.size, n.app.show_tree), n.app.focus))

\* C12: after a Resize event, and after a 't' key event, the rectangle the
\* focused view was given in that event is the one JexLayout::new computes
\* from the current terminal size and the current (toggled) show_tree. (On a
\* Resize the two panes show different frames: a frame in both panes has the
\* rectangle of one of them.)
C12_LayoutRecomputedOnResizeAndToggle ==
    run = "loop" =>
        /\ app.left_index # app.right_index =>
              \A e \in ResizeEvents : LayoutIsCurrent(Step(Now, e))
        /\ ~app.flash.shown => \A e \in KeyEvents("t") : LayoutIsCurrent(Step(Now, e))

----------------------------------------------------------------------------
(* The interactive loop: navigation keys on a frame without rendering state. *)

NavCodes == {"Down", "Up", "PageDown", "PageUp", "z", "/", "n", "N", "Home", "End"}

\* The event e, ending in n, changed no state and the loop goes on, or run
\* returned the error of the draw that ends the iteration.
NothingChanged(e, n) ==
    /\ n.app = app
    /\ n.size = term_size
    /\ n.run = IF e.fail = "final" THEN "Err" ELSE "loop"

\* C13: when the focused frame's payload is an error or has no rendering
\* state, the navigation keys Down, Up, PageDown, PageUp, z, /, n, N, Home and
\* End change no state and do not panic.
C13_NavigationWithoutViewIsNoOp ==
    run = "loop" /\ ~app.flash.shown /\ app.views[FocusedKey(app)].view.kind # "Json" =>
        \A code \in NavCodes : \A e \in KeyEvents(code) :
            NothingChanged(e, Step(Now, e))

\* The focused frame has no rendering state, under a frame that shows an
\* error.
C13_Witness ==
    /\ run = "loop"
    /\ ~app.flash.shown
    /\ app.views[FocusedKey(app)].view.kind = "None"
    /\ \E k \in DOMAIN app.views : app.views[k].view.kind = "Error"

----------------------------------------------------------------------------
(* The interactive loop: Home and End. *)

\* The focused view of n has its cursor and its scroll position at place
\* `place` of the leaves visible under the fold set it had, which it keeps.
JumpedTo(n, leaves, place) ==
    /\ n.run # "panic"
    /\ n.app.views[FocusedKey(app)].view.kind = "Json"
    /\ n.app.views[FocusedKey(app)].view.cursor = leaves[place]
    /\ n.app.views[FocusedKey(app)].view.scroll = leaves[place]
    /\ n.app.views[FocusedKey(app)].view.folds = app.views[FocusedKey(app)].view.folds
    /\ n.app.views[FocusedKey(app)].view.values = app.views[FocusedKey(app)].view.values

FocusedLeaves ==
    VisibleLeaves(app.views[FocusedKey(app)].view.values,
                  app.views[FocusedKey(app)].view.folds)

\* C14: when the focused view has rendering state, Home sets both its scroll
\* position and its cursor to the first visible leaf and End sets both to the
\* last visible leaf, under the view's current fold set; neither fails, and
\* after either key the cursor is the scroll position's leaf.
C14_HomeAndEnd ==
    run = "loop" /\ ~app.flash.shown /\ app.views[FocusedKey(app)].view.kind = "Json" =>
        /\ \A e \in KeyEvents("Home") : JumpedTo(Step(Now, e), FocusedLeaves, 1)
        /\ \A e \in KeyEvents("End") :
              JumpedTo(Step(Now, e), FocusedLeaves, Len(FocusedLeaves))

\* The focused view's cursor and scroll position are at its last visible
\* leaf, which is not its first.
C14_Witness ==
    /\ run = "loop"
    /\ ~app.flash.shown
    /\ app.views[FocusedKey(app)].view.kind = "Json"
    /\ Len(FocusedLeaves) > 1
    /\ app.views[FocusedKey(app)].view.cursor = FocusedLeaves[Len(FocusedLeaves)]
    /\ app.views[FocusedKey(app)].view.scroll = FocusedLeaves[Len(FocusedLeaves)]

----------------------------------------------------------------------------
(* run: the terminal is restored. *)

\* C15: once run has entered raw mode and the alternate screen (the panic
\* hook is set right after), every way of leaving run restores the terminal:
\* Esc with no flash showing, an error out of the loop or out of start-up, a
\* panic.
C15_TerminalRestored ==
    run \in {"Ok", "Err", "panic"} /\ term.hook => ~term.raw /\ ~term.alt

\* run was left from the loop by a panic, and the terminal is restored.
C15_Witness ==
    /\ run = "panic"
    /\ events > 0
    /\ term.hook
    /\ ~term.raw
    /\ ~term.alt

----------------------------------------------------------------------------
(* The interactive loop: one event at a time. *)

\* The iteration on an event ended in n: when the loop goes on, the screen
\* was drawn in Normal mode at least once in it.
RedrawnBeforeNext(n) == n.run = "loop" => n.drawn >= 1

\* C17: between reading one event and reading the next, the handling of the
\* first is complete and the screen has been redrawn in Normal mode at least
\* once, for every event that does not end the loop: resize events, key
\* events consumed by a flash, and ordinary key events.
C17_RedrawnBeforeNextEvent ==
    run = "loop" =>
        /\ \A e \in ResizeEvents : RedrawnBeforeNext(Step(Now, e))
        /\ \A code \in KeyCodes : \A e \in KeyEvents(code) :
              RedrawnBeforeNext(Step(Now, e))

\* The loop goes on after a key consumed by a flash (Down has scrolled it)
\* that an ordinary key had set.
C17_Witness ==
    /\ run = "loop"
    /\ events >= 2
    /\ app.flash.shown
    /\ app.flash.scroll > 0

----------------------------------------------------------------------------
(* The interactive loop: navigation uses the focused pane's geometry. *)

\* The focused view with the inner rectangle of the focused pane, under the
\* layout of the terminal's size and show_tree.
FocusedViewInPane ==
    ResizeTo(app.views[FocusedKey(app)].view,
             Inner(FocusedPane(JexLayoutNew(term_size, app.show_tree), app.focus)))

\* C18: whenever a navigation operation is applied to the focused view, the
\* view's viewport rectangle has just been set to the inner rectangle of the
\* focused pane, so the view ends the event with that rectangle and paging
\* moves by that pane's height.
C18_NavigationUsesPaneGeometry ==
    run = "loop" /\ ~app.flash.shown /\ app.views[FocusedKey(app)].view.kind = "Json" =>
        /\ \A code \in NavCodes : \A e \in KeyEvents(code) :
              LayoutIsCurrent(Step(Now, e))
        /\ \A e \in KeyEvents("PageDown") :
              Step(Now, e).app.views[FocusedKey(app)].view = PageDown(FocusedViewInPane)
        /\ \A e \in KeyEvents("PageUp") :
              Step(Now, e).app.views[FocusedKey(app)].view = PageUp(FocusedViewInPane)
        /\ \A e \in KeyEvents("z") :
              Step(Now, e).app.views[FocusedKey(app)].view = ToggleFold(FocusedViewInPane)

\* With the tree pane shown, the focused view has the inner rectangle of its
\* pane and its cursor has left the first leaf.
C18_Witness ==
    /\ run = "loop"
    /\ ~app.flash.shown
    /\ app.show_tree
    /\ app.views[FocusedKey(app)].view.kind = "Json"
    /\ app.views[FocusedKey(app)].view = FocusedViewInPane
    /\ app.views[FocusedKey(app)].view.cursor # FocusedLeaves[1]

----------------------------------------------------------------------------
(* The JQ wrapper: a result sequence does not start over. *)

\* C19, as amended: once next() on a sequence returned by execute has
\* returned None, no later next() on that sequence yields a further value (it
\* returns None again, or the native engine stops the process); more results
\* are obtained only by calling execute again.
C19_NoValueAfterNone ==
    \A id \in JQIds :
        /\ res[id].late = <<>>
        /\ res[id].after => res[id].ended
        /\ res[id].ended /\ res[id].live > 0 => native[id].pending = <<>>

\* C19 as stated: as above, and every later next() returns None.
C19_LaterNextReturnsNone ==
    /\ \A id \in JQIds : res[id].late = <<>>
    /\ proc # "aborted"

\* next() was called again after it had returned None, on a sequence that
\* had yielded a value, and returned None.
C19_Witness ==
    \E id \in JQIds :
        /\ res[id].after
        /\ res[id].yielded # <<>>
        /\ res[id].late = <<>>
        /\ proc = "running"

----------------------------------------------------------------------------
(* The JQ wrapper: who holds the native values of an execution. *)

\* C20: during an execution no native value is released twice or leaked by
\* the wrapper: the input given to execute is held by the engine alone and the
\* wrapper has not released it; every value jq_next returned, the yielded ones
\* and the invalid one that ends the sequence, has had exactly one JV wrapper:
\* a yielded value is held by that wrapper, the closing invalid value was
\* released once by it.
C20_HandlesOwnedOnce ==
    \A id \in JQIds :
        res[id].live > 0 =>
            /\ res[id].in_handle = [wrappers |-> 0, engine |-> 1, frees |-> 0]
            /\ \A h \in res[id].out_handles :
                    /\ h.engine = 0
                    /\ h.wrappers + h.frees = 1
            /\ res[id].yielded # <<>> =>
                    [wrappers |-> 1, engine |-> 0, frees |-> 0]
                        \in res[id].out_handles
            /\ res[id].ended =>
                    [wrappers |-> 0, engine |-> 0, frees |-> 1]
                        \in res[id].out_handles

\* An execution on a compound input has yielded values and has ended.
C20_Witness ==
    \E id \in JQIds :
        /\ res[id].live > 0
        /\ res[id].input # VNull
        /\ res[id].in_handle.engine = 1
        /\ Len(res[id].yielded) >= 2
        /\ res[id].ended
        /\ Cardinality(res[id].out_handles) = 2

----------------------------------------------------------------------------
(* run: what becomes of the App when run is left. *)

\* C21: when run returns Ok(()) (Esc with no flash showing) the App was
\* forgotten, not dropped: none of its frames was released, and the terminal
\* is restored; when run returns an error that was propagated while an App
\* existed, the App was dropped and all of its frames were released.
C21_AppForgottenOnNormalExit ==
    /\ run = "Ok" =>
          /\ app.fate = "forgotten"
          /\ app.released = 0
          /\ ~term.raw /\ ~term.alt
    /\ run = "Err" /\ app.fate # "none" =>
          /\ app.fate = "dropped"
          /\ app.released >= 1
    /\ run = "loop" /\ ~app.flash.shown =>
          \A e \in KeyEvents("Esc") : Step(Now, e).run = "Ok"

\* run has returned Ok(()) after at least two events.
C21_Witness ==
    /\ run = "Ok"
    /\ events >= 2
    /\ app.fate = "forgotten"

----------------------------------------------------------------------------
(* run_jq_query: the order of the results. *)

\* The results of the program on one value, in the order the engine
\* produces them, as generic values.
ResultsOn(prog, v) ==
    LET outs == JqEval(prog, FromSerde(v))
    IN  [k \in 1..(Len(outs) - 1) |-> ToSerdeValid(outs[k])]

\* Where the results of content[j] start in the concatenation.
RECURSIVE OffsetOf(_, _, _)
OffsetOf(content, prog, j) ==
    IF j = 1 THEN 0
    ELSE OffsetOf(content, prog, j - 1) + Len(ResultsOn(prog, content[j - 1]))

\* values holds, for each j in input order, the results of content[j] in
\* the order the program produced them, and nothing else.
InInputOrder(content, prog, values) ==
    /\ Len(values) = OffsetOf(content, prog, Len(content) + 1)
    /\ \A j \in 1..Len(content) :
          \A k \in 1..Len(ResultsOn(prog, content[j])) :
              values[OffsetOf(content, prog, j) + k] = ResultsOn(prog, content[j])[k]

\* C22: what run_jq_query returns is the concatenation, in input order, of
\* the results of the program on each input value: every result for an
\* earlier input precedes every result for a later one, each input's results
\* keep the order the program produced them in, and an input without results
\* contributes nothing.
C22_ResultsInInputOrder ==
    \A i \in 2..Len(sets) :
        InInputOrder(sets[origin[i].parent], origin[i].query, sets[i])

\* A set derived from three inputs: the first has two results, the second
\* none, the third one.
C22_Witness ==
    \E i \in 2..Len(sets) :
        LET content == sets[origin[i].parent]
            prog == origin[i].query
        IN  /\ Len(content) = 3
            /\ Len(ResultsOn(prog, content[1])) = 2
            /\ ResultsOn(prog, content[2]) = <<>>
            /\ Len(ResultsOn(prog, content[3])) = 1
            /\ Len(sets[i]) = 3
            /\ sets[i][1] # sets[i][2]

====
